---- MODULE Spec2Model ----
(***************************************************************************)
(* A model of the SIL verifier of lib/SIL/Verifier.cpp.                    *)
(*                                                                         *)
(* The verifier is a visitor over a Function: visitFunction walks the      *)
(* blocks and their instructions and calls SILVerifier::visit on each;     *)
(* visit checks the instruction's position in its block and dispatches to  *)
(* the visitXInst method of the instruction's kind.  Every check is an     *)
(* assert(): the model is of the build with assertions enabled, where a    *)
(* failed assert ends the verification.  The outcome names are those of    *)
(* the specification: a failed assert of visit is a MalformedBlock, a      *)
(* failed assert of a visitXInst a TypeInvariantViolation, and             *)
(* llvm_unreachable an UnrecoverableShape.  A dereference of a null        *)
(* pointer is undefined behaviour: the model lets it end the process       *)
(* (Crash) or go on, whichever the build does.                             *)
(***************************************************************************)
EXTENDS Integers, Sequences, FiniteSets, TLC

\* ------------------------------------------------------------------ types

\* The Swift types of the model, by name.
ValueTypeNames ==
    {"Int", "Bool", "C", "T", "P", "RawPointer", "()", "(Int,Bool)",
     "T.metatype", "Int.metatype"}

FunctionTypeNames ==
    {"()->Int", "(Int)->C", "(Int,Bool)->Int", "(Unresolved)->Int",
     "T->()->Int", "T.metatype->()->Int", "Int->()->Int", "T->Int",
     "RawPointer->()->Int", "RawPointer->Int"}

PolymorphicFunctionTypeNames == {"<T>(T)->T"}

TypeNames == ValueTypeNames \cup FunctionTypeNames \cup PolymorphicFunctionTypeNames

\* A SILType: a Swift type and the address bit.
SILType == [name : TypeNames, addr : BOOLEAN]

Ty(n) == [name |-> n, addr |-> FALSE]
AddrOf(n) == [name |-> n, addr |-> TRUE]

\* A null Value (no defining instruction), and the type of an instruction
\* that produces no value.
NullValue == [name |-> "<null>", addr |-> FALSE]
NoResult == [name |-> "<none>", addr |-> FALSE]

\* The class of the Swift AST a type is an instance of.
Shape(n) ==
    CASE n = "Int" -> "BuiltinIntegerType"
      [] n \in {"Bool", "RawPointer"} -> "StructType"
      [] n = "C" -> "ClassType"
      [] n = "T" -> "ArchetypeType"
      [] n = "P" -> "ProtocolType"
      [] n \in {"()", "(Int,Bool)"} -> "TupleType"
      [] n \in {"T.metatype", "Int.metatype"} -> "MetaTypeType"
      [] n \in FunctionTypeNames -> "FunctionType"
      [] n \in PolymorphicFunctionTypeNames -> "PolymorphicFunctionType"
      [] OTHER -> "none"

\* t.is<S>(); AnyFunctionType is the base class of FunctionType and
\* PolymorphicFunctionType.
is(t, S) ==
    IF S = "AnyFunctionType"
    THEN Shape(t.name) \in {"FunctionType", "PolymorphicFunctionType"}
    ELSE Shape(t.name) = S

isAddress(t) == t.addr

\* Classes and functions are references.
hasReferenceSemantics(t) == Shape(t.name) \in {"ClassType", "FunctionType"}

\* A property of the Swift type, whatever the address bit: archetypes and
\* existentials cannot be loaded.
isAddressOnly(t) == Shape(t.name) \in {"ArchetypeType", "ProtocolType"}

isExistentialType(t) == Shape(t.name) = "ProtocolType"

getObjectType(t) == [t EXCEPT !.addr = FALSE]

getSwiftType(t) == t.name

\* TupleType::getFields().size()
TupleFieldCount(n) == IF n = "(Int,Bool)" THEN 2 ELSE 0

\* MetaTypeType::getInstanceType()
getInstanceType(n) == IF n = "T.metatype" THEN "T" ELSE "Int"

\* FunctionType::getInput() and getResult(), of the AST's function type.
getInput(n) ==
    CASE n = "()->Int" -> "()"
      [] n = "(Int)->C" -> "Int"
      [] n = "(Int,Bool)->Int" -> "(Int,Bool)"
      [] n = "(Unresolved)->Int" -> "Int"
      [] n \in {"T->()->Int", "T->Int"} -> "T"
      [] n = "T.metatype->()->Int" -> "T.metatype"
      [] n = "Int->()->Int" -> "Int"
      [] n \in {"RawPointer->()->Int", "RawPointer->Int"} -> "RawPointer"
      [] OTHER -> "<none>"

getResult(n) ==
    CASE n \in {"()->Int", "(Int,Bool)->Int", "(Unresolved)->Int", "T->Int",
                "RawPointer->Int"} -> "Int"
      [] n = "(Int)->C" -> "C"
      [] n \in {"T->()->Int", "T.metatype->()->Int", "Int->()->Int",
                "RawPointer->()->Int"} -> "()->Int"
      [] OTHER -> "<none>"

TheRawPointerType == "RawPointer"

\* The SILFunctionTypeInfo of a function type: its input types in order and
\* its result type; NullInfo when the signature cannot be resolved.
NullInfo == [resolved |-> FALSE, inputs |-> <<>>, result |-> NoResult]

getFunctionTypeInfo(t) ==
    CASE t.name = "(Unresolved)->Int" -> NullInfo
      [] t.name = "()->Int" ->
            [resolved |-> TRUE, inputs |-> <<>>, result |-> Ty("Int")]
      [] t.name = "(Int,Bool)->Int" ->
            [resolved |-> TRUE, inputs |-> <<Ty("Int"), Ty("Bool")>>,
             result |-> Ty("Int")]
      [] OTHER ->
            [resolved |-> TRUE, inputs |-> <<Ty(getInput(t.name))>>,
             result |-> Ty(getResult(t.name))]

\* ------------------------------------------------------------ instructions

\* An instruction: its kind, its result type (NoResult when it has none) and
\* the types of its operands in order (NullValue for a null Value).
\*   apply            ops = <<callee, argument 1, ..., argument n>>
\*   store, copy_addr ops = <<source, destination>>
\*   super_to_archetype ops = <<source base, destination archetype address>>
\*   tuple            ops = the elements
Inst(k, t, o) == [kind |-> k, ty |-> t, ops |-> o]

TermKinds == {"br", "condbranch", "return"}

\* isa<TermInst>(I)
isTerm(I) == I.kind \in TermKinds

\* ------------------------------------------------------------------ rules

\* What a visitXInst method comes to: it returns ("ok"), an assert of it
\* fails, it reaches llvm_unreachable, or the process dies in undefined
\* behaviour.  arg is the index i of the apply argument whose assert failed
\* (-1 otherwise).
Pass == [out |-> "ok", msg |-> "", arg |-> -1]
Fail(m) == [out |-> "TypeInvariantViolation", msg |-> m, arg |-> -1]
FailArg(m, i) == [out |-> "TypeInvariantViolation", msg |-> m, arg |-> i]
Unreachable(m) == [out |-> "UnrecoverableShape", msg |-> m, arg |-> -1]
Crash == [out |-> "Crash", msg |-> "null pointer dereference", arg |-> -1]

\* assert(c && m)
A(c, m) == [c |-> c, m |-> m]

\* A run of asserts: the first that fails ends it.
Asserts(checks) ==
    IF \A k \in DOMAIN checks : checks[k].c
    THEN Pass
    ELSE LET k == CHOOSE j \in DOMAIN checks :
                      /\ ~checks[j].c
                      /\ \A h \in DOMAIN checks : h < j => checks[h].c
         IN Fail(checks[k].m)

visitAllocVarInst(AI) ==
    Asserts(<<A(isAddress(AI.ty), "alloc_var must return address")>>)

visitAllocRefInst(AI) ==
    Asserts(<<A(hasReferenceSemantics(AI.ty) /\ ~isAddress(AI.ty),
                "alloc_ref must return reference type value")>>)

\* The arguments against the input types, in order: the index (from 0) of
\* the first argument whose type is not the input type at its position, or
\* -1.  Called with as many arguments as inputs.
FirstMismatch(args, inputs) ==
    IF \A i \in DOMAIN args : args[i] = inputs[i]
    THEN -1
    ELSE (CHOOSE i \in DOMAIN args :
              /\ args[i] # inputs[i]
              /\ \A h \in DOMAIN args : h < i => args[h] = inputs[h]) - 1

\* The asserts of visitApplyInst on ti, reading through a null ti: the
\* process dies, or what is read decides each assert either way.
ApplyThroughNull ==
    {Crash, Pass,
     Fail("apply doesn't have right number of arguments for function"),
     Fail("input types to apply don't match function input types"),
     Fail("type of apply instruction doesn't match function result type")}

\* visitApplyInst comparing the argument types with the input types as
\* collections, whatever their order.
visitApplyInst_Unordered(AI, debug) ==
    LET calleeTy == AI.ops[1]
        args == Tail(AI.ops)
        ti == getFunctionTypeInfo(calleeTy)
    IN  IF isAddress(calleeTy) \/ ~is(calleeTy, "FunctionType") \/ ~ti.resolved
        THEN {Fail("callee of apply must have concrete function type")}
        ELSE IF Len(args) # Len(ti.inputs)
        THEN {Fail("apply doesn't have right number of arguments for function")}
        ELSE IF {args[i] : i \in DOMAIN args} # {ti.inputs[i] : i \in DOMAIN args}
        THEN {FailArg("input types to apply don't match function input types", 0)}
        ELSE {Asserts(<<A(AI.ty = ti.result,
                "type of apply instruction doesn't match function result type")>>)}

\* The set of ways visitApplyInst can end.  The DEBUG blocks print; those of
\* lines 73-88 read ti, which the asserts after them read as well.
visitApplyInst(AI, debug) ==
    LET calleeTy == AI.ops[1]
        args == Tail(AI.ops)
        callee == Asserts(<<
            A(~isAddress(calleeTy), "callee of apply cannot be an address"),
            A(is(calleeTy, "FunctionType"),
              "callee of apply must have concrete function type")>>)
        ti == getFunctionTypeInfo(calleeTy)
    IN  IF callee # Pass THEN {callee}
        ELSE IF ~ti.resolved THEN ApplyThroughNull
        ELSE IF Len(args) # Len(ti.inputs)
        THEN {Fail("apply doesn't have right number of arguments for function")}
        ELSE IF FirstMismatch(args, ti.inputs) # -1
        THEN {FailArg("input types to apply don't match function input types",
                      FirstMismatch(args, ti.inputs))}
        ELSE {Asserts(<<A(AI.ty = ti.result,
                "type of apply instruction doesn't match function result type")>>)}

visitConstantRefInst(CRI) ==
    Asserts(<<A(is(CRI.ty, "AnyFunctionType"),
                "constant_ref should have a function result")>>)

visitIntegerLiteralInst(ILI) ==
    Asserts(<<A(is(ILI.ty, "BuiltinIntegerType"), "invalid integer literal type")>>)

\* visitLoadInst without the comparison of the two types.
visitLoadInst_Untyped(LI) ==
    Asserts(<<
        A(~isAddress(LI.ty), "Can't load an address"),
        A(isAddress(LI.ops[1]), "Load operand must be an address")>>)

visitLoadInst(LI) ==
    Asserts(<<
        A(~isAddress(LI.ty), "Can't load an address"),
        A(isAddress(LI.ops[1]), "Load operand must be an address"),
        A(getObjectType(LI.ops[1]) = LI.ty,
          "Load operand type and result type mismatch")>>)

visitStoreInst(SI) ==
    Asserts(<<
        A(~isAddress(SI.ops[1]), "Can't store from an address source"),
        A(isAddress(SI.ops[2]), "Must store to an address dest"),
        A(getObjectType(SI.ops[2]) = SI.ops[1],
          "Store operand type and dest type mismatch")>>)

visitCopyAddrInst(SI) ==
    Asserts(<<
        A(isAddress(SI.ops[1]), "Src value should be lvalue"),
        A(isAddress(SI.ops[2]), "Dest address should be lvalue"),
        A(SI.ops[2] = SI.ops[1], "Store operand type and dest type mismatch")>>)

visitZeroAddrInst(ZI) ==
    Asserts(<<A(isAddress(ZI.ops[1]), "Dest address should be lvalue")>>)

visitZeroValueInst(ZVI) ==
    Asserts(<<A(~isAddress(ZVI.ty), "zero_value cannot create an address")>>)

visitSpecializeInst(SI) ==
    Asserts(<<
        A(is(SI.ty, "FunctionType"), "Specialize dest should be a function type"),
        A(is(SI.ops[1], "PolymorphicFunctionType"),
          "Specialize source should be a polymorphic function type")>>)

\* visitTupleInst letting a tuple have fewer elements than fields.
visitTupleInst_AtMost(TI) ==
    IF ~is(TI.ty, "TupleType")
    THEN Fail("TupleInst should return a tuple")
    ELSE Asserts(<<A(Len(TI.ops) <= TupleFieldCount(TI.ty.name),
                     "Tuple field count mismatch!")>>)

visitTupleInst(TI) ==
    IF ~is(TI.ty, "TupleType")
    THEN Fail("TupleInst should return a tuple")
    ELSE Asserts(<<A(Len(TI.ops) = TupleFieldCount(TI.ty.name),
                     "Tuple field count mismatch!")>>)

visitMetatypeInst(MI) ==
    Asserts(<<A(is(MI.ty, "MetaTypeType"),
                "metatype instruction must be of metatype type")>>)

visitAssociatedMetatypeInst(MI) ==
    Asserts(<<
        A(is(MI.ty, "MetaTypeType"),
          "associated_metatype instruction must be of metatype type"),
        A(is(MI.ops[1], "MetaTypeType"),
          "associated_metatype operand must be of metatype type")>>)

\* visitRetainInst without the assert on the address bit.
visitRetainInst_AnyAddress(RI) ==
    Asserts(<<
        A(hasReferenceSemantics(RI.ops[1]),
          "Operand of dealloc_ref must be reference type")>>)

visitRetainInst(RI) ==
    Asserts(<<
        A(~isAddress(RI.ops[1]), "Operand of retain must not be address"),
        A(hasReferenceSemantics(RI.ops[1]),
          "Operand of dealloc_ref must be reference type")>>)

visitReleaseInst(RI) ==
    Asserts(<<
        A(~isAddress(RI.ops[1]), "Operand of release must not be address"),
        A(hasReferenceSemantics(RI.ops[1]),
          "Operand of dealloc_ref must be reference type")>>)

visitDeallocVarInst(DI) ==
    Asserts(<<A(isAddress(DI.ops[1]), "Operand of dealloc_var must be address")>>)

visitDeallocRefInst(DI) ==
    Asserts(<<
        A(~isAddress(DI.ops[1]), "Operand of dealloc_ref must not be address"),
        A(hasReferenceSemantics(DI.ops[1]),
          "Operand of dealloc_ref must be reference type")>>)

visitDestroyAddrInst(DI) ==
    Asserts(<<A(isAddressOnly(DI.ops[1]),
                "Operand of destroy_addr must be address-only")>>)

visitIndexAddrInst(IAI) ==
    Asserts(<<A(isAddress(IAI.ty) /\ IAI.ty = IAI.ops[1], "invalid IndexAddrInst")>>)

visitExtractInst(EI) ==
    Asserts(<<
        A(~isAddress(EI.ops[1]), "cannot extract from address"),
        A(~hasReferenceSemantics(EI.ops[1]), "cannot extract from reference type"),
        A(~isAddress(EI.ty), "result of extract cannot be address")>>)

visitElementAddrInst(EI) ==
    Asserts(<<
        A(isAddress(EI.ops[1]), "must derive element_addr from address"),
        A(~hasReferenceSemantics(EI.ops[1]),
          "cannot derive element_addr from reference type"),
        A(isAddress(EI.ty), "result of element_addr must be lvalue")>>)

visitRefElementAddrInst(EI) ==
    Asserts(<<
        A(~isAddress(EI.ops[1]), "must derive ref_element_addr from non-address"),
        A(hasReferenceSemantics(EI.ops[1]),
          "must derive ref_element_addr from reference type"),
        A(isAddress(EI.ty), "result of ref_element_addr must be lvalue")>>)

\* The set of ways visitArchetypeMethodInst can end.  methodType is null
\* when the result is not a FunctionType, and the DEBUG block of lines
\* 250-252 calls methodType->print before the assert of line 253 tests it.
visitArchetypeMethodInst(AMI, debug) ==
    LET operandType == AMI.ops[1]
        method == AMI.ty.name
    IN  IF ~is(AMI.ty, "FunctionType")
        THEN (IF debug THEN {Crash} ELSE {})
             \cup {Fail("result method must be of a concrete function type")}
        ELSE IF getInput(method) # getSwiftType(operandType)
        THEN {Fail("result must be a method of the operand")}
        ELSE IF Shape(getResult(method)) # "FunctionType"
        THEN {Fail("result must be a method")}
        ELSE IF isAddress(operandType)
        THEN {Asserts(<<A(is(operandType, "ArchetypeType"),
                "archetype_method must apply to an archetype address")>>)}
        ELSE IF is(operandType, "MetaTypeType")
        THEN {Asserts(<<A(Shape(getInstanceType(operandType.name)) = "ArchetypeType",
                "archetype_method must apply to an archetype metatype")>>)}
        ELSE {Unreachable("method must apply to an address or metatype")}

visitProtocolMethodInst(EMI) ==
    LET operandType == EMI.ops[1]
        method == EMI.ty.name
    IN  IF ~is(EMI.ty, "FunctionType")
        THEN Fail("result method must be of a concrete function type")
        ELSE Asserts(<<
            A(getInput(method) = TheRawPointerType,
              "result must be a method of raw pointer"),
            A(Shape(getResult(method)) = "FunctionType", "result must be a method"),
            A(isAddress(operandType),
              "protocol_method must apply to an existential address"),
            A(isExistentialType(operandType),
              "protocol_method must apply to an existential address")>>)

visitProjectExistentialInst(PEI) ==
    Asserts(<<
        A(isAddress(PEI.ops[1]), "project_existential must be applied to address"),
        A(isExistentialType(PEI.ops[1]),
          "project_existential must be applied to address of existential")>>)

visitInitExistentialInst(AEI) ==
    Asserts(<<
        A(isAddress(AEI.ops[1]), "init_existential must be applied to an address"),
        A(isExistentialType(AEI.ops[1]),
          "init_existential must be applied to address of existential")>>)

visitDeinitExistentialInst(DEI) ==
    Asserts(<<
        A(isAddress(DEI.ops[1]), "deinit_existential must be applied to an address"),
        A(isExistentialType(DEI.ops[1]),
          "deinit_existential must be applied to address of existential")>>)

visitArchetypeToSuperInst(ASI) ==
    Asserts(<<
        A(isAddressOnly(ASI.ops[1]), "archetype_to_super operand must be an address"),
        A(is(ASI.ops[1], "ArchetypeType"),
          "archetype_to_super operand must be archetype"),
        A(hasReferenceSemantics(ASI.ty),
          "archetype_to_super must convert to a reference type")>>)

visitSuperToArchetypeInst(SAI) ==
    Asserts(<<
        A(hasReferenceSemantics(SAI.ops[1]),
          "super_to_archetype source must be a reference type"),
        A(is(SAI.ops[2], "ArchetypeType"),
          "super_to_archetype dest must be an archetype address")>>)

visitDowncastInst(DI) ==
    Asserts(<<
        A(hasReferenceSemantics(DI.ops[1]), "downcast operand must be a reference type"),
        A(hasReferenceSemantics(DI.ty), "downcast must convert to a reference type")>>)

visitIntegerValueInst(IVI) ==
    Asserts(<<A(is(IVI.ty, "BuiltinIntegerType"), "invalid integer value type")>>)

\* visitReturnInst with the commented-out check of lines 356-364 in force.
visitReturnInst_Typed(RI, loweredResult) ==
    Asserts(<<
        A(RI.ops[1] # NullValue, "Return of null value is invalid"),
        A(RI.ops[1] = loweredResult,
          "return value type does not match return type of function")>>)

\* The type of the returned value is not compared with the result type of
\* the function (F.getLoweredType()): that check is commented out.
visitReturnInst(RI, loweredResult) ==
    Asserts(<<A(RI.ops[1] # NullValue, "Return of null value is invalid")>>)

visitBranchInst(BI) == Pass

visitCondBranchInst(CBI) ==
    Asserts(<<A(CBI.ops[1] # NullValue,
                "Condition of conditional branch can't be missing")>>)

\* SILVisitor's dispatch on the kind of the instruction: the set of ways
\* the visitXInst method of I can end.
Dispatch(I, debug, loweredResult) ==
    CASE I.kind = "alloc_var" -> {visitAllocVarInst(I)}
      [] I.kind = "alloc_ref" -> {visitAllocRefInst(I)}
      [] I.kind = "apply" -> visitApplyInst(I, debug)
      [] I.kind = "constant_ref" -> {visitConstantRefInst(I)}
      [] I.kind = "integer_literal" -> {visitIntegerLiteralInst(I)}
      [] I.kind = "load" -> {visitLoadInst(I)}
      [] I.kind = "store" -> {visitStoreInst(I)}
      [] I.kind = "copy_addr" -> {visitCopyAddrInst(I)}
      [] I.kind = "zero_addr" -> {visitZeroAddrInst(I)}
      [] I.kind = "zero_value" -> {visitZeroValueInst(I)}
      [] I.kind = "specialize" -> {visitSpecializeInst(I)}
      [] I.kind = "tuple" -> {visitTupleInst(I)}
      [] I.kind = "metatype" -> {visitMetatypeInst(I)}
      [] I.kind = "associated_metatype" -> {visitAssociatedMetatypeInst(I)}
      [] I.kind = "retain" -> {visitRetainInst(I)}
      [] I.kind = "release" -> {visitReleaseInst(I)}
      [] I.kind = "dealloc_var" -> {visitDeallocVarInst(I)}
      [] I.kind = "dealloc_ref" -> {visitDeallocRefInst(I)}
      [] I.kind = "destroy_addr" -> {visitDestroyAddrInst(I)}
      [] I.kind = "index_addr" -> {visitIndexAddrInst(I)}
      [] I.kind = "extract" -> {visitExtractInst(I)}
      [] I.kind = "element_addr" -> {visitElementAddrInst(I)}
      [] I.kind = "ref_element_addr" -> {visitRefElementAddrInst(I)}
      [] I.kind = "archetype_method" -> visitArchetypeMethodInst(I, debug)
      [] I.kind = "protocol_method" -> {visitProtocolMethodInst(I)}
      [] I.kind = "project_existential" -> {visitProjectExistentialInst(I)}
      [] I.kind = "init_existential" -> {visitInitExistentialInst(I)}
      [] I.kind = "deinit_existential" -> {visitDeinitExistentialInst(I)}
      [] I.kind = "archetype_to_super" -> {visitArchetypeToSuperInst(I)}
      [] I.kind = "super_to_archetype" -> {visitSuperToArchetypeInst(I)}
      [] I.kind = "downcast" -> {visitDowncastInst(I)}
      [] I.kind = "integer_value" -> {visitIntegerValueInst(I)}
      [] I.kind = "return" -> {visitReturnInst(I, loweredResult)}
      [] I.kind = "br" -> {visitBranchInst(I)}
      [] I.kind = "condbranch" -> {visitCondBranchInst(I)}

\* The asserts of visit on the place of the instruction BB[i] in its block:
\* a non-terminator is not the last, a terminator is.
PositionCheck(BB, i) ==
    IF ~isTerm(BB[i])
    THEN IF Len(BB) = 0
         THEN [out |-> "MalformedBlock", arg |-> -1,
               msg |-> "Can't be in a parent block if it is empty"]
         ELSE IF i = Len(BB)
         THEN [out |-> "MalformedBlock", arg |-> -1,
               msg |-> "Non-terminators cannot be the last in a block"]
         ELSE Pass
    ELSE IF i # Len(BB)
         THEN [out |-> "MalformedBlock", arg |-> -1,
               msg |-> "Terminator must be the last in block"]
         ELSE Pass

\* visit dispatching to the visit method of the kind before it checks the
\* place of the instruction.
visit_DispatchFirst(BB, i, debug, loweredResult) ==
    {IF r # Pass
     THEN [res |-> r, steps |-> <<"rule">>]
     ELSE [res |-> PositionCheck(BB, i), steps |-> <<"rule", "position">>] :
        r \in Dispatch(BB[i], debug, loweredResult)}

\* SILVerifier::visit on the instruction BB[i]: the set of ways it can end,
\* each with the checks it made, in order.
visit(BB, i, debug, loweredResult) ==
    IF PositionCheck(BB, i) # Pass
    THEN {[res |-> PositionCheck(BB, i), steps |-> <<"position">>]}
    ELSE {[res |-> r, steps |-> <<"position", "rule">>] :
              r \in Dispatch(BB[i], debug, loweredResult)}

\* ------------------------------------------------------------------ state

VARIABLES
    F,          \* the function verified: its blocks, and its lowered result type
    DebugFlag,  \* llvm::DebugFlag: whether the DEBUG blocks run
    bb,         \* the block visitFunction is at
    ip,         \* the instruction of that block it is at
    outcome,    \* "Running", then how the verification ended
    failed,     \* where it failed: block, instruction, message, argument
    checked,    \* the checks made so far, in order: <<block, instruction, step>>
    first       \* how the verification with DebugFlag off ended

vars == <<F, DebugFlag, bb, ip, outcome, failed, checked, first>>

NoFailure == [bb |-> 0, ip |-> 0, msg |-> "", arg |-> -1]
NoRun == [outcome |-> "none", failed |-> NoFailure]

\* ------------------------------------------------------------------ bounds

MaxBlocks == 2
MaxTotal == 3
MaxArgs == 2
MaxElems == 3

\* ------------------------------------------------------ the functions verified

SeqsUpTo(S, n) == UNION {[1..k -> S] : k \in 0..n}

RECURSIVE SumTo(_, _)
SumTo(lens, k) == IF k = 0 THEN 0 ELSE lens[k] + SumTo(lens, k - 1)

\* The instructions flat, cut into blocks of the lengths lens.
Cut(flat, lens) ==
    [b \in DOMAIN lens |->
        SubSeq(flat, SumTo(lens, b - 1) + 1, SumTo(lens, b))]

Fn(blocks, lowered) == [blocks |-> blocks, loweredResult |-> lowered]

\* Blocks of a few instructions, well and ill placed, with rules that pass
\* and rules that fail.
PoolInsts ==
    {Inst("alloc_var", AddrOf("Int"), <<>>),
     Inst("alloc_var", Ty("Int"), <<>>),
     Inst("br", NoResult, <<>>),
     Inst("condbranch", NoResult, <<Ty("Bool")>>),
     Inst("return", NoResult, <<NullValue>>)}

BlockFunctions ==
    {Fn(Cut(flat, lens), Ty("()")) :
        <<flat, lens>> \in
            {p \in SeqsUpTo(PoolInsts, MaxTotal) \X
                   UNION {[1..n -> 0..MaxTotal] : n \in 1..MaxBlocks} :
                SumTo(p[2], Len(p[2])) = Len(p[1])}}

\* One instruction of every kind, over the types of the model.
ResultOnlyKinds ==
    {"alloc_var", "alloc_ref", "constant_ref", "integer_literal", "zero_value",
     "metatype", "integer_value"}

OperandOnlyKinds ==
    {"zero_addr", "retain", "release", "dealloc_var", "dealloc_ref",
     "destroy_addr", "project_existential", "init_existential",
     "deinit_existential"}

ResultOperandKinds ==
    {"load", "specialize", "associated_metatype", "index_addr", "extract",
     "element_addr", "ref_element_addr", "archetype_method", "protocol_method",
     "archetype_to_super", "downcast"}

TwoOperandKinds == {"store", "copy_addr", "super_to_archetype"}

CalleeTypes ==
    [name : {"()->Int", "(Int)->C", "(Int,Bool)->Int", "(Unresolved)->Int",
             "Int", "<T>(T)->T"},
     addr : BOOLEAN]

ArgTypes == {Ty("Int"), Ty("Bool"), AddrOf("Int")}

ApplyResultTypes == {Ty("Int"), Ty("C"), Ty("Bool"), AddrOf("Int")}

ApplyInsts ==
    {Inst("apply", r, <<c>> \o args) :
        <<r, c, args>> \in ApplyResultTypes \X CalleeTypes \X SeqsUpTo(ArgTypes, MaxArgs)}

TupleInsts ==
    {Inst("tuple", t, elems) :
        <<t, elems>> \in SILType \X SeqsUpTo({Ty("Int"), Ty("Bool")}, MaxElems)}

NonTermInsts ==
    {Inst(k, t, <<>>) : <<k, t>> \in ResultOnlyKinds \X SILType}
    \cup {Inst(k, NoResult, <<o>>) : <<k, o>> \in OperandOnlyKinds \X SILType}
    \cup {Inst(k, t, <<o>>) : <<k, t, o>> \in ResultOperandKinds \X SILType \X SILType}
    \cup {Inst(k, NoResult, <<o1, o2>>) :
            <<k, o1, o2>> \in TwoOperandKinds \X SILType \X SILType}
    \cup ApplyInsts
    \cup TupleInsts

RuleFunctions ==
    {Fn(<<(<<I, Inst("br", NoResult, <<>>)>>)>>, Ty("()")) : I \in NonTermInsts}
    \cup {Fn(<<(<<Inst("return", NoResult, <<v>>)>>)>>, lowered) :
            <<v, lowered>> \in (SILType \cup {NullValue}) \X SILType}
    \cup {Fn(<<(<<Inst("condbranch", NoResult, <<c>>)>>)>>, Ty("()")) :
            c \in {Ty("Bool"), NullValue}}
    \cup {Fn(<<(<<Inst("br", NoResult, <<>>)>>)>>, Ty("()"))}

\* alloc_var -> a; store v to d; load a -> r; return r
LoadStoreBlock(T, d, r) ==
    <<Inst("alloc_var", AddrOf(T), <<>>),
      Inst("store", NoResult, <<Ty(T), d>>),
      Inst("load", r, <<AddrOf(T)>>),
      Inst("return", NoResult, <<r>>)>>

LoadStoreFunctions ==
    {Fn(<<LoadStoreBlock(T, d, r)>>, Ty(T)) :
        <<T, d, r>> \in
            {q \in TypeNames \X SILType \X SILType :
                q[2] \in {AddrOf(q[1]), Ty(q[1]), Ty("Int"), Ty("C")}}}

\* The instructions whose visit method holds DEBUG blocks, with a callee
\* whose signature resolves.
TraceFunctions ==
    {f \in RuleFunctions :
        /\ f.blocks[1][1].kind \in {"apply", "archetype_method", "return"}
        /\ f.blocks[1][1].kind = "apply" =>
               f.blocks[1][1].ops[1].name # "(Unresolved)->Int"}

\* ---------------------------------------------------------------- actions

Start(fns) ==
    /\ F \in fns
    /\ DebugFlag = FALSE
    /\ bb = 1
    /\ ip = 1
    /\ outcome = "Running"
    /\ failed = NoFailure
    /\ checked = <<>>
    /\ first = NoRun

\* visitBasicBlock calls visit on the next instruction of the block; a check
\* that fails ends the verification.
VisitInst ==
    /\ outcome = "Running"
    /\ bb <= Len(F.blocks)
    /\ ip <= Len(F.blocks[bb])
    /\ \E v \in visit(F.blocks[bb], ip, DebugFlag, F.loweredResult) :
        /\ checked' = checked \o [k \in DOMAIN v.steps |-> <<bb, ip, v.steps[k]>>]
        /\ IF v.res.out = "ok"
           THEN /\ ip' = ip + 1
                /\ UNCHANGED <<outcome, failed>>
           ELSE /\ outcome' = v.res.out
                /\ failed' = [bb |-> bb, ip |-> ip, msg |-> v.res.msg,
                              arg |-> v.res.arg]
                /\ UNCHANGED ip
    /\ UNCHANGED <<F, DebugFlag, bb, first>>

\* visitFunction goes on to the next block.
NextBlock ==
    /\ outcome = "Running"
    /\ bb <= Len(F.blocks)
    /\ ip > Len(F.blocks[bb])
    /\ bb' = bb + 1
    /\ ip' = 1
    /\ UNCHANGED <<F, DebugFlag, outcome, failed, checked, first>>

\* visitFunction returns, and verify with it.
VerifyReturns ==
    /\ outcome = "Running"
    /\ bb > Len(F.blocks)
    /\ outcome' = "Success"
    /\ UNCHANGED <<F, DebugFlag, bb, ip, failed, checked, first>>

\* The function is verified again, with the debug output on.
VerifyWithDebug ==
    /\ outcome # "Running"
    /\ ~DebugFlag
    /\ first' = [outcome |-> outcome, failed |-> failed]
    /\ DebugFlag' = TRUE
    /\ bb' = 1
    /\ ip' = 1
    /\ outcome' = "Running"
    /\ failed' = NoFailure
    /\ checked' = <<>>
    /\ UNCHANGED F

Next ==
    \/ VisitInst
    \/ NextBlock
    \/ VerifyReturns
    \/ VerifyWithDebug

InitBlocks == Start(BlockFunctions)
InitRules == Start(RuleFunctions)
InitLoadStore == Start(LoadStoreFunctions)
InitTrace == Start(TraceFunctions)

SpecBlocks == InitBlocks /\ [][Next]_vars
SpecRules == InitRules /\ [][Next]_vars
SpecLoadStore == InitLoadStore /\ [][Next]_vars
SpecTrace == InitTrace /\ [][Next]_vars

\* ------------------------------------------------------------------ claims

Done == outcome # "Running"

\* The first instruction of the function, and where a failure on it is.
I1 == F.blocks[1][1]
AtFirst == failed.bb = 1 /\ failed.ip = 1

\* A block as the IR wants it: not empty, and exactly its last instruction
\* a terminator.
WellFormedBlock(BB) ==
    /\ Len(BB) > 0
    /\ \A i \in DOMAIN BB : isTerm(BB[i]) <=> i = Len(BB)

\* The rule of every instruction of the block passes.
RulesPass(BB) ==
    \A i \in DOMAIN BB : Dispatch(BB[i], DebugFlag, F.loweredResult) = {Pass}

PassingBlock(BB) == WellFormedBlock(BB) /\ RulesPass(BB)

\* A passing block without its terminator, or with a non-terminator after it.
TerminatorOmitted(BB) ==
    /\ RulesPass(BB)
    /\ \A i \in DOMAIN BB : ~isTerm(BB[i])

InsertedAfterTerminator(BB) ==
    /\ Len(BB) >= 2
    /\ PassingBlock(SubSeq(BB, 1, Len(BB) - 1))
    /\ ~isTerm(BB[Len(BB)])

\* C1: the verification succeeds only if in every block exactly the last
\* instruction is a terminator; a function whose first block that does not
\* pass is a passing block without its terminator, or with a non-terminator
\* after its terminator, ends in MalformedBlock.
C1_TerminatorPosition ==
    /\ outcome = "Success" => \A b \in DOMAIN F.blocks : WellFormedBlock(F.blocks[b])
    /\ Done =>
         \A b \in DOMAIN F.blocks :
            (/\ \A h \in 1..(b - 1) : PassingBlock(F.blocks[h])
             /\ \/ TerminatorOmitted(F.blocks[b])
                \/ InsertedAfterTerminator(F.blocks[b]))
            => outcome = "MalformedBlock"

\* C2: an apply whose callee is not an address, is of function type and has
\* a signature of inputs T1..Tn and result R passes if and only if it has n
\* arguments, argument i of type Ti for every i, and the result type R; two
\* arguments of differing types that would pass the other way round fail;
\* arguments (Bool, Int) to a callee (Int, Bool) -> Int fail on argument 0.
C2_ApplyLaw ==
    (/\ Done
     /\ I1.kind = "apply"
     /\ ~I1.ops[1].addr
     /\ Shape(I1.ops[1].name) = "FunctionType"
     /\ getFunctionTypeInfo(I1.ops[1]).resolved)
    =>
    LET sig == getFunctionTypeInfo(I1.ops[1])
        args == Tail(I1.ops)
    IN  /\ outcome = "Success" <=>
            /\ Len(args) = Len(sig.inputs)
            /\ \A i \in 1..Len(sig.inputs) : args[i] = sig.inputs[i]
            /\ I1.ty = sig.result
        /\ outcome \in {"Success", "TypeInvariantViolation"}
        /\ outcome = "TypeInvariantViolation" => AtFirst
        /\ (/\ Len(args) = 2
            /\ args[1] # args[2]
            /\ <<args[2], args[1]>> = sig.inputs) => outcome # "Success"
        /\ (/\ I1.ops[1].name = "(Int,Bool)->Int"
            /\ args = <<Ty("Bool"), Ty("Int")>>)
           => /\ outcome = "TypeInvariantViolation"
              /\ failed.arg = 0
              /\ failed.msg = "input types to apply don't match function input types"

C2_Witness ==
    /\ Done
    /\ I1.kind = "apply"
    /\ I1.ops = <<Ty("(Int,Bool)->Int"), Ty("Bool"), Ty("Int")>>
    /\ I1.ty = Ty("Int")
    /\ outcome = "TypeInvariantViolation"
    /\ failed.arg = 0

\* The checks of a function in the order of the walk: block by block,
\* instruction by instruction, the place of an instruction before its rule.
RECURSIVE OrderFrom(_, _, _)
OrderFrom(blocks, b, i) ==
    IF b > Len(blocks) THEN <<>>
    ELSE IF i > Len(blocks[b]) THEN OrderFrom(blocks, b + 1, 1)
    ELSE <<(<<b, i, "position">>), (<<b, i, "rule">>)>> \o OrderFrom(blocks, b, i + 1)

Order == OrderFrom(F.blocks, 1, 1)

\* Whether the check c = <<block, instruction, step>> is violated, and the
\* failure it then is.
Violated(c) ==
    LET BB == F.blocks[c[1]]
    IN  IF c[3] = "position"
        THEN isTerm(BB[c[2]]) # (c[2] = Len(BB))
        ELSE Dispatch(BB[c[2]], DebugFlag, F.loweredResult) # {Pass}

FailureOf(c) == IF c[3] = "position" THEN "MalformedBlock" ELSE "TypeInvariantViolation"

\* C3: the checks are made in the order of the walk, the place of an
\* instruction before its rule, each once; the verification ends at the
\* first check that is violated, with that failure, and checks nothing
\* after it; with no check violated it ends in success after all of them.
C3_FirstFailure ==
    /\ Len(checked) <= Len(Order)
    /\ \A k \in DOMAIN checked : checked[k] = Order[k]
    /\ \A k \in DOMAIN checked : k < Len(checked) => ~Violated(checked[k])
    /\ outcome = "Running" => \A k \in DOMAIN checked : ~Violated(checked[k])
    /\ outcome = "Success" =>
         /\ checked = Order
         /\ \A k \in DOMAIN checked : ~Violated(checked[k])
    /\ outcome \notin {"Running", "Success"} =>
         /\ checked # <<>>
         /\ Violated(checked[Len(checked)])
         /\ outcome = FailureOf(checked[Len(checked)])
         /\ failed.bb = checked[Len(checked)][1]
         /\ failed.ip = checked[Len(checked)][2]

\* A rule fails in the second block, after a first block that passes.
C3_Witness ==
    /\ outcome = "TypeInvariantViolation"
    /\ failed.bb = 2
    /\ Len(checked) >= 4
    /\ Len(checked) < Len(Order)

\* The block of a load/store function: its pointee type, the destination of
\* its store and the type of its load.
LSPointee == F.blocks[1][1].ty.name
LSDest == F.blocks[1][2].ops[2]
LSLoaded == F.blocks[1][3].ty

\* C4: the block alloc_var -> a, store v to a, load a -> r, return r, with a
\* an address of T and v a value of T, verifies exactly when r is T and not
\* an address; with the store to a non-address operand instead, the
\* verification fails with a TypeInvariantViolation on the store.
C4_LoadStoreRoundTrip ==
    Done =>
        /\ LSDest = AddrOf(LSPointee) =>
             (outcome = "Success" <=> (LSLoaded.name = LSPointee /\ ~LSLoaded.addr))
        /\ ~LSDest.addr =>
             /\ outcome = "TypeInvariantViolation"
             /\ failed.bb = 1
             /\ failed.ip = 2

C4_Witness ==
    /\ outcome = "Success"
    /\ LSPointee = "Int"
    /\ LSDest = AddrOf("Int")
    /\ LSLoaded = Ty("Int")
    /\ Len(checked) = 8

\* The type the reference rule of an instruction is about.
RefKinds == {"retain", "release", "dealloc_ref", "alloc_ref"}
RefSubject == IF I1.kind = "alloc_ref" THEN I1.ty ELSE I1.ops[1]

\* C5: retain, release and dealloc_ref (on their operand) and alloc_ref (on
\* its result) pass if and only if the type has reference semantics and is
\* not an address.
C5_ReferenceSemantics ==
    (Done /\ I1.kind \in RefKinds) =>
        /\ outcome = "Success" <=>
             (hasReferenceSemantics(RefSubject) /\ ~isAddress(RefSubject))
        /\ outcome # "Success" => (outcome = "TypeInvariantViolation" /\ AtFirst)

\* The address of a class is retained, and rejected.
C5_Witness ==
    /\ Done
    /\ I1.kind = "retain"
    /\ I1.ops[1] = AddrOf("C")
    /\ outcome = "TypeInvariantViolation"

\* C6: a tuple whose result type is a tuple type of k fields passes if and
\* only if it has k elements, whatever their types; a tuple whose result
\* type is no tuple type fails.
C6_TupleFieldCount ==
    (Done /\ I1.kind = "tuple") =>
        IF Shape(I1.ty.name) = "TupleType"
        THEN outcome = "Success" <=> Len(I1.ops) = TupleFieldCount(I1.ty.name)
        ELSE outcome = "TypeInvariantViolation" /\ AtFirst

\* A tuple of type (Int, Bool) built of two Bools passes.
C6_Witness ==
    /\ outcome = "Success"
    /\ I1.kind = "tuple"
    /\ I1.ty = Ty("(Int,Bool)")
    /\ I1.ops = <<Ty("Bool"), Ty("Bool")>>

\* An archetype_method on an operand that is neither an address nor a
\* metatype, and an apply whose callee has no signature.
UnknownOperandShape ==
    /\ I1.kind = "archetype_method"
    /\ ~I1.ops[1].addr
    /\ Shape(I1.ops[1].name) # "MetaTypeType"

UnresolvedCallee ==
    /\ I1.kind = "apply"
    /\ ~I1.ops[1].addr
    /\ Shape(I1.ops[1].name) = "FunctionType"
    /\ ~getFunctionTypeInfo(I1.ops[1]).resolved

\* C7: an archetype_method whose operand is neither an address nor a
\* metatype, and an apply whose callee signature cannot be resolved, end in
\* UnrecoverableShape; nothing else does.
C7_FatalShapes ==
    Done =>
        /\ (UnknownOperandShape \/ UnresolvedCallee) => outcome = "UnrecoverableShape"
        /\ outcome = "UnrecoverableShape" => (UnknownOperandShape \/ UnresolvedCallee)

\* C8: the verification with the debug output on ends as the verification
\* with it off did: the same outcome, on the same instruction.
C8_TraceNonInterference ==
    (Done /\ DebugFlag) => (outcome = first.outcome /\ failed = first.failed)

\* C9: an archetype_to_super passes only if its operand is an address, is
\* address-only and is an archetype, and its result has reference
\* semantics; a super_to_archetype passes only if its source has reference
\* semantics and its destination is an address and an archetype.
C9_ArchetypeCasts ==
    (Done /\ outcome = "Success") =>
        /\ I1.kind = "archetype_to_super" =>
             /\ isAddress(I1.ops[1])
             /\ isAddressOnly(I1.ops[1])
             /\ Shape(I1.ops[1].name) = "ArchetypeType"
             /\ hasReferenceSemantics(I1.ty)
        /\ I1.kind = "super_to_archetype" =>
             /\ hasReferenceSemantics(I1.ops[1])
             /\ isAddress(I1.ops[2])
             /\ Shape(I1.ops[2].name) = "ArchetypeType"

\* C10: a return of a null value is rejected; a return of any value passes,
\* whatever the type of the value and the result type of the function.
C10_ReturnRule ==
    (Done /\ I1.kind = "return") =>
        IF I1.ops[1] = NullValue
        THEN outcome = "TypeInvariantViolation" /\ AtFirst
        ELSE outcome = "Success"

\* A function of result type Int returns the address of a class.
C10_Witness ==
    /\ outcome = "Success"
    /\ I1.kind = "return"
    /\ I1.ops[1] = AddrOf("C")
    /\ F.loweredResult = Ty("Int")

====
